---- MODULE Spec2Model ----
(***************************************************************************)
(* Model of pyrestful/rest.py: the annotation step (config and the four    *)
(* decorators) and the request dispatcher RestHandler._exe with its        *)
(* helpers.  Strings are sequences of one-character strings, so that the   *)
(* regular expressions and str.split of the source are computed and not    *)
(* assumed.                                                                *)
(***************************************************************************)
EXTENDS Integers, Sequences, FiniteSets, TLC

VARIABLES
    py2,        \* PY2 (line 20): the interpreter major version is 2
    pc,         \* "define" | "aborted" | "idle" | "scan" | "done" | "raised"
    ops,        \* the annotated methods of the handler class, in dir() order
    decls,      \* for each element of ops, the decorator call that made it
    cfg,        \* outcome of the last decorator call
    req,        \* self.request: method, path, arguments
    idx,        \* position of the for loop of _exe in ops
    matched,    \* indices of the operations whose if-branch (line 174) was entered
    invoked,    \* indices of the operations called at line 179
    last,       \* what the last loop iteration did
    resp,       \* the response object of the handler (status, headers, buffer)
    raised      \* exception that left _exe

vars == <<py2, pc, ops, decls, cfg, req, idx, matched, invoked, last, resp, raised>>

(* Bound of the model: number of annotated methods of the handler class.   *)
MaxOps == 2

----------------------------------------------------------------------------
(* Python values                                                            *)

NONE == "None"
STR  == "str"
INT  == "int"

None      == [t |-> "none"]
Raw(s)    == [t |-> "raw", s |-> s]
PyStr(s)  == [t |-> "str", u |-> s]
PyInt(n)  == [t |-> "int", n |-> n]

(* pyrestful.mediatypes *)
APPLICATION_JSON == "application/json"
APPLICATION_XML  == "application/xml"
TEXT_XML         == "text/xml"

WordChars == {"a", "b", "q", "x", "y", "z", "0", "1", "2", "3", "4", "5",
              "6", "7", "8", "9"}

DigitVal == [c \in {"0", "1", "2", "3", "4", "5", "6", "7", "8", "9"} |->
               CASE c = "0" -> 0 [] c = "1" -> 1 [] c = "2" -> 2 [] c = "3" -> 3
                 [] c = "4" -> 4 [] c = "5" -> 5 [] c = "6" -> 6 [] c = "7" -> 7
                 [] c = "8" -> 8 [] c = "9" -> 9]

Min(a, b) == IF a < b THEN a ELSE b
Max(a, b) == IF a < b THEN b ELSE a

Repeat(v, n) == [i \in 1..Max(n, 0) |-> v]

InSeq(x, s) == \E i \in 1..Len(s) : s[i] = x

----------------------------------------------------------------------------
(* String functions of the standard library used by the source             *)

(* str.split(sep): the pieces between the separators, empty ones included  *)
RECURSIVE SplitFrom(_, _, _, _)
SplitFrom(s, sep, i, cur) ==
    IF i > Len(s) THEN <<cur>>
    ELSE IF s[i] = sep THEN <<cur>> \o SplitFrom(s, sep, i + 1, <<>>)
    ELSE SplitFrom(s, sep, i + 1, Append(cur, s[i]))

split(s, sep) == SplitFrom(s, sep, 1, <<>>)

(* end of the maximal run of word characters that starts at position i     *)
RECURSIVE WordEnd(_, _)
WordEnd(s, i) ==
    IF i + 1 <= Len(s) /\ s[i + 1] \in WordChars THEN WordEnd(s, i + 1) ELSE i

(* re.findall(r"(?<=c)\w+", s): the non-overlapping words preceded by c    *)
RECURSIVE FindAllFrom(_, _, _)
FindAllFrom(c, s, i) ==
    IF i > Len(s) THEN <<>>
    ELSE IF i > 1 /\ s[i - 1] = c /\ s[i] \in WordChars
         THEN <<SubSeq(s, i, WordEnd(s, i))>> \o FindAllFrom(c, s, WordEnd(s, i) + 1)
         ELSE FindAllFrom(c, s, i + 1)

findall(c, s) == FindAllFrom(c, s, 1)

----------------------------------------------------------------------------
(* config (lines 53-93): builds the operation descriptor of one method.    *)
(* func is [args |-> names of the parameters after self]; kwparams is the  *)
(* keyword mapping of the decorator call.  The result is the descriptor,   *)
(* or the exception that config raises.                                    *)

Allowed == <<APPLICATION_JSON, APPLICATION_XML, TEXT_XML>>

ProducesOf(kwparams) ==
    IF DOMAIN kwparams # {}
    THEN IF "_produces" \in DOMAIN kwparams THEN kwparams._produces
         ELSE APPLICATION_JSON
    ELSE NONE

ProducesValid(produces) == InSeq(produces, Allowed)

(* config without the check of lines 90-91 *)
configUnchecked(func, method, kwparams) ==
    LET has      == DOMAIN kwparams # {}
        types    == IF has /\ "_types" \in DOMAIN kwparams
                    THEN kwparams._types ELSE <<>>
    IN  IF ~has
        THEN [ok |-> FALSE, err |-> "TypeError"]
        ELSE [ok |-> TRUE,
              op |-> [_func_params    |-> func.args,
                      _types          |-> IF types # <<>> THEN types
                                          ELSE Repeat(STR, Len(func.args)),
                      _service_name   |-> findall("/", kwparams._path),
                      _service_params |-> findall("{", kwparams._path),
                      _method         |-> method,
                      _produces       |-> ProducesOf(kwparams),
                      _consumes       |-> IF "_consumes" \in DOMAIN kwparams
                                          THEN kwparams._consumes ELSE NONE,
                      _query_params   |-> findall("<", kwparams._path),
                      _path           |-> kwparams._path,
                      _is_coroutine   |-> "_coroutine" \in DOMAIN kwparams
                                          /\ kwparams._coroutine = TRUE]]

config(func, method, kwparams) ==
    LET has      == DOMAIN kwparams # {}
        produces == ProducesOf(kwparams)
        consumes == IF has /\ "_consumes" \in DOMAIN kwparams
                    THEN kwparams._consumes ELSE NONE
        types    == IF has /\ "_types" \in DOMAIN kwparams
                    THEN kwparams._types ELSE <<>>
        corout   == has /\ "_coroutine" \in DOMAIN kwparams /\ kwparams._coroutine = TRUE
    IN  IF ~has
        THEN [ok |-> FALSE, err |-> "TypeError"]        \* re.findall on None
        ELSE LET path == kwparams._path
                 operation ==
                   [_func_params    |-> func.args,
                    _types          |-> IF types # <<>> THEN types
                                        ELSE Repeat(STR, Len(func.args)),
                    _service_name   |-> findall("/", path),
                    _service_params |-> findall("{", path),
                    _method         |-> method,
                    _produces       |-> produces,
                    _consumes       |-> consumes,
                    _query_params   |-> findall("<", path),
                    _path           |-> path,
                    _is_coroutine   |-> corout]
             IN  IF ~ProducesValid(operation._produces)
                 THEN [ok |-> FALSE, err |-> "PyRestfulException"]
                 ELSE [ok |-> TRUE, op |-> operation]

----------------------------------------------------------------------------
(* The annotated methods of the handler class.  Every decorator call gives *)
(* _path (line 62 reads it whenever a keyword is given); the other         *)
(* keywords are optional.                                                  *)

Path_a     == <<"/", "a">>                                  \* /a
Path_a_x   == <<"/", "a", "/", "{", "x", "}">>              \* /a/{x}
Path_y_a   == <<"/", "{", "y", "}", "/", "a">>              \* /{y}/a
Path_a_q   == <<"/", "a", "<", "q", ">">>                   \* /a<q>
Path_a_x_q == <<"/", "a", "/", "{", "x", "}", "<", "q", ">">>  \* /a/{x}<q>

F(args) == [args |-> args]

NoKw == [k \in {} |-> NONE]

Annotations ==
    { [dec |-> "get",    f |-> F(<< <<"x">> >>),
       kw  |-> [_path |-> Path_a_x, _types |-> <<INT>>]],
      [dec |-> "get",    f |-> F(<< <<"y">> >>),
       kw  |-> [_path |-> Path_y_a, _produces |-> APPLICATION_XML]],
      [dec |-> "get",    f |-> F(<< <<"q">> >>),
       kw  |-> [_path |-> Path_a_q, _types |-> <<INT>>, _produces |-> TEXT_XML]],
      [dec |-> "post",   f |-> F(<<>>),
       kw  |-> [_path |-> Path_a, _produces |-> APPLICATION_JSON]],
      [dec |-> "put",    f |-> F(<< <<"x">>, <<"q">> >>),
       kw  |-> [_path |-> Path_a_x_q, _types |-> <<NONE, INT>>]],
      [dec |-> "delete", f |-> F(<< <<"x">>, <<"q">> >>),
       kw  |-> [_path |-> Path_a_x_q, _types |-> <<INT>>, _coroutine |-> TRUE]],
      [dec |-> "post",   f |-> F(<< <<"x">> >>),
       kw  |-> [_path |-> Path_a_x, _produces |-> "text/plain"]],
      [dec |-> "delete", f |-> F(<<>>),
       kw  |-> [_path |-> Path_a, _produces |-> "text/html", _consumes |-> TEXT_XML]],
      [dec |-> "get",    f |-> F(<<>>), kw |-> NoKw] }

(* The class body binds the returned operation to the method's name.  The  *)
(* methods are named in definition order, so that dir() (line 153), which  *)
(* sorts by name, lists them in the order of ops.                          *)
Define(a, method) ==
    /\ pc = "define"
    /\ Len(ops) < MaxOps
    /\ LET r == config(a.f, method, a.kw)
       IN  IF r.ok
           THEN /\ ops' = Append(ops, r.op)
                /\ decls' = Append(decls, a)
                /\ cfg' = [kw |-> a.kw, result |-> "ok"]
                /\ pc' = pc
           ELSE /\ cfg' = [kw |-> a.kw, result |-> r.err]
                /\ pc' = "aborted"      \* the exception ends the import
                /\ UNCHANGED <<ops, decls>>
    /\ UNCHANGED <<py2, req, idx, matched, invoked, last, resp, raised>>

(* the decorators (lines 96-121) *)
get(a)    == a.dec = "get"    /\ Define(a, "GET")
post(a)   == a.dec = "post"   /\ Define(a, "POST")
put(a)    == a.dec = "put"    /\ Define(a, "PUT")
delete(a) == a.dec = "delete" /\ Define(a, "DELETE")

----------------------------------------------------------------------------
(* RestHandler.get_handlers / RestService._generateRestServices: the       *)
(* pattern under which the listener routes a path to the handler class.    *)
(* "ANY" stands for the two characters ".*" of the pattern.                *)

ANY == "ANY"

(* re.sub(r"(?<={)\w+}", ".*", p) *)
RECURSIVE SubBraces(_, _)
SubBraces(p, i) ==
    IF i > Len(p) THEN <<>>
    ELSE IF i > 1 /\ p[i - 1] = "{" /\ p[i] \in WordChars
            /\ WordEnd(p, i) + 1 <= Len(p) /\ p[WordEnd(p, i) + 1] = "}"
         THEN <<ANY>> \o SubBraces(p, WordEnd(p, i) + 2)
         ELSE <<p[i]>> \o SubBraces(p, i + 1)

(* re.sub(r"(?<=<)\w+", "", s) *)
RECURSIVE SubAngles(_, _)
SubAngles(s, i) ==
    IF i > Len(s) THEN <<>>
    ELSE IF i > 1 /\ s[i - 1] = "<" /\ s[i] \in WordChars
         THEN SubAngles(s, WordEnd(s, i) + 1)
         ELSE <<s[i]>> \o SubAngles(s, i + 1)

replace(s, c) == SelectSeq(s, LAMBDA ch : ch # c)

RoutePattern(p) ==
    LET s == replace(SubBraces(p, 1), "{")
    IN  replace(replace(replace(replace(SubAngles(s, 1), "<"), ">"), "&"), "?")

_generateRestServices(rest) == [i \in 1..Len(rest) |-> RoutePattern(rest[i]._path)]

(* the listener matches the whole path against pattern + "$" *)
RECURSIVE RouteMatches(_, _)
RouteMatches(pat, s) ==
    IF pat = <<>> THEN s = <<>>
    ELSE IF Head(pat) = ANY
         THEN \E k \in 0..Len(s) : RouteMatches(Tail(pat), SubSeq(s, k + 1, Len(s)))
         ELSE s # <<>> /\ Head(s) = Head(pat) /\ RouteMatches(Tail(pat), Tail(s))

Routed(path) ==
    \E i \in 1..Len(ops) : RouteMatches(_generateRestServices(ops)[i], path)

(* RestService.__init__ (lines 292-300): the class is complete and served  *)
RestService ==
    /\ pc = "define"
    /\ pc' = "idle"
    /\ UNCHANGED <<py2, ops, decls, cfg, req, idx, matched, invoked, last, resp, raised>>

----------------------------------------------------------------------------
(* The response side of tornado.web.RequestHandler, as far as _exe and     *)
(* gen_http_error use it.  write and finish raise RuntimeError once the    *)
(* response is finished; finish sends status, headers and buffer.          *)

InitResp == [status |-> 200, ctype |-> "text/html", buffer |-> <<>>,
             finished |-> FALSE, sent |-> <<>>]

Html(msg) == [enc |-> "html", of |-> msg]

set_header(r, value) == [r EXCEPT !.ctype = value]

set_status(r, status) == [r EXCEPT !.status = status]

clear(r) == [r EXCEPT !.status = 200, !.ctype = "text/html", !.buffer = <<>>]

write(r, chunk) ==
    IF r.finished THEN [exc |-> TRUE, r |-> r]
    ELSE [exc |-> FALSE, r |-> [r EXCEPT !.buffer = Append(@, chunk)]]

finish(r) ==
    IF r.finished THEN [exc |-> TRUE, r |-> r]
    ELSE [exc |-> FALSE,
          r |-> [r EXCEPT !.finished = TRUE,
                          !.sent = <<[status |-> r.status, ctype |-> r.ctype,
                                      body |-> r.buffer]>>]]

(* self.write(x); self.finish() *)
write_finish(r, chunk) ==
    LET w == write(r, chunk) IN IF w.exc THEN w ELSE finish(w.r)

(* gen_http_error (lines 248-253) *)
gen_http_error(r, status, msg) ==
    write_finish(set_status(clear(r), status), Html(msg))

----------------------------------------------------------------------------
(* pyrestful.types.convert: the raw value as a value of the declared type  *)

IsNumeral(s) == s # <<>> /\ \A i \in 1..Len(s) : s[i] \in DOMAIN DigitVal

RECURSIVE ParseInt(_)
ParseInt(s) ==
    IF s = <<>> THEN 0
    ELSE 10 * ParseInt(SubSeq(s, 1, Len(s) - 1)) + DigitVal[s[Len(s)]]

convert(v, type) ==
    IF type = STR THEN [err |-> "none", val |-> PyStr(v.s)]
    ELSE IF type = INT
         THEN IF IsNumeral(v.s) THEN [err |-> "none", val |-> PyInt(ParseInt(v.s))]
              ELSE [err |-> "ValueError", val |-> None]
         ELSE [err |-> "TypeError", val |-> None]

----------------------------------------------------------------------------
(* Helpers of RestHandler                                                  *)

(* _find_params_value_of_url (lines 205-215) *)
_find_params_value_of_url(services, url) ==
    LET url_split == split(url, "/")
        values    == SelectSeq(url_split,
                               LAMBDA item : ~InSeq(item, services) /\ item # <<>>)
    IN  [i \in 1..Len(values) |-> Raw(values[i])]

(* _find_params_value_of_arguments (lines 217-231) *)
_find_params_value_of_arguments(operation, arguments) ==
    IF DOMAIN arguments # {}
    THEN LET a      == operation._service_params
             b      == operation._func_params
             params == SelectSeq(b, LAMBDA item : ~InSeq(item, a))
         IN  [i \in 1..Len(params) |->
                IF params[i] \in DOMAIN arguments
                THEN Raw(arguments[params[i]][1])
                ELSE None]
    ELSE IF Len(operation._query_params) > 0
         THEN Repeat(None, Len(operation._func_params) - Len(operation._service_params))
         ELSE <<>>

(* _convert_params_values (lines 233-246): the converted list, or the      *)
(* first exception                                                         *)
RECURSIVE ConvertFrom(_, _, _, _)
ConvertFrom(values_list, params_types, i, values) ==
    IF i > Len(values_list) THEN [err |-> "none", vals |-> values]
    ELSE IF values_list[i] # None
         THEN IF i > Len(params_types) THEN [err |-> "IndexError", vals |-> <<>>]
              ELSE LET c == convert(values_list[i], params_types[i])
                   IN  IF c.err # "none" THEN [err |-> c.err, vals |-> <<>>]
                       ELSE ConvertFrom(values_list, params_types, i + 1,
                                        Append(values, c.val))
         ELSE ConvertFrom(values_list, params_types, i + 1, Append(values, None))

_convert_params_values(values_list, params_types) ==
    ConvertFrom(values_list, params_types, 1, <<>>)

(* lines 165-166: the declared types merged with the default str.  map     *)
(* over two lists stops at the shorter one in Python 3 and pads the        *)
(* shorter one with None in Python 2.                                      *)
ParamsTypes(operation, isPy2) ==
    LET service_params == operation._service_params
        t0   == IF operation._types # <<>> THEN operation._types
                ELSE Repeat(STR, Len(service_params))
        strs == Repeat(STR, Len(service_params))
        n    == IF isPy2 THEN Max(Len(t0), Len(strs)) ELSE Min(Len(t0), Len(strs))
    IN  [i \in 1..n |->
           LET x == IF i <= Len(t0) THEN t0[i] ELSE NONE
               y == IF i <= Len(strs) THEN strs[i] ELSE NONE
           IN  IF x = NONE THEN y ELSE x]

(* the condition of line 174 without the comparison of the counts *)
IsMatchNoCount(operation, request) ==
    LET path                  == split(request.path, "/")
        service_name          == operation._service_name
        services_from_request == SelectSeq(service_name, LAMBDA x : InSeq(x, path))
    IN  /\ operation._method = request.method
        /\ service_name = services_from_request

(* the condition of line 174 without the comparison of the verbs *)
IsMatchNoVerb(operation, request) ==
    LET path                  == split(request.path, "/")
        services_and_params   == SelectSeq(path, LAMBDA x : x # <<>>)
        service_name          == operation._service_name
        service_params        == operation._service_params
        services_from_request == SelectSeq(service_name, LAMBDA x : InSeq(x, path))
    IN  /\ service_name = services_from_request
        /\ Len(service_params) + Len(service_name) = Len(services_and_params)

(* the condition of line 174; _list_from_filter (lines 37-41) is SelectSeq *)
IsMatch(operation, request) ==
    LET path                  == split(request.path, "/")
        services_and_params   == SelectSeq(path, LAMBDA x : x # <<>>)
        service_name          == operation._service_name
        service_params        == operation._service_params
        services_from_request == SelectSeq(service_name, LAMBDA x : InSeq(x, path))
    IN  /\ operation._method = request.method
        /\ service_name = services_from_request
        /\ Len(service_params) + Len(service_name) = Len(services_and_params)

----------------------------------------------------------------------------
(* What the annotated method does when it is called: it returns a value of *)
(* some kind, or raises.  "list_bad" is a list that json.dumps rejects.    *)

Kinds == {"None", "dict", "list", "list_bad", "Document", "str"}

Behaviours ==
    {[do |-> "return", kind |-> k, status |-> 0] : k \in Kinds}
      \cup {[do |-> "raise", kind |-> "HTTPError", status |-> st] : st \in {404}}
      \cup {[do |-> "raise", kind |-> "Exception", status |-> 0]}

NoBehaviour == [do |-> "none", kind |-> "none", status |-> 0]

NoExc == [exc |-> "none", status |-> 0]

NoLast == [op |-> 0, match |-> FALSE, values |-> <<>>, types |-> <<>>,
           args |-> <<>>, called |-> FALSE, beh |-> NoBehaviour,
           err |-> "none", pre |-> InitResp]

(* lines 184-197: the encoding of a returned value that is not None.       *)
(* write(dict) encodes the mapping as a JSON object and keeps the media    *)
(* type application/json.                                                  *)
Negotiate(r, produces, kind) ==
    LET r1 == set_header(r, produces)
    IN  IF produces = APPLICATION_JSON /\ kind = "dict"
        THEN LET w == write_finish(r1, [enc |-> "json_object", of |-> kind])
             IN  [err |-> IF w.exc THEN "RuntimeError" ELSE "none", r |-> w.r]
        ELSE IF produces = APPLICATION_JSON /\ kind \in {"list", "list_bad"}
        THEN IF kind = "list_bad" THEN [err |-> "JSONTypeError", r |-> r1]
             ELSE LET w == write_finish(r1, [enc |-> "json_array", of |-> kind])
                  IN  [err |-> IF w.exc THEN "RuntimeError" ELSE "none", r |-> w.r]
        ELSE IF produces \in {APPLICATION_XML, TEXT_XML} /\ kind = "Document"
        THEN LET w == write_finish(r1, [enc |-> "xml", of |-> kind])
             IN  [err |-> IF w.exc THEN "RuntimeError" ELSE "none", r |-> w.r]
        ELSE LET g == gen_http_error(r1, 500, "response is not a document")
             IN  [err |-> IF g.exc THEN "RuntimeError" ELSE "none", r |-> g.r]

(* lines 176-197: the body of the try statement for a matched operation.   *)
(* err is the exception that leaves the body ("none" if none does), ret    *)
(* tells that the return of line 182 was taken.                            *)
TryBody(operation, request, r, isPy2, b) ==
    LET params_values == _find_params_value_of_url(operation._service_name, request.path)
                           \o _find_params_value_of_arguments(operation, request.arguments)
        params_types  == ParamsTypes(operation, isPy2)
        conv          == _convert_params_values(params_values, params_types)
        base          == [values |-> params_values, types |-> params_types,
                          args |-> conv.vals, called |-> FALSE, ret |-> FALSE,
                          err |-> "none", status |-> 0, r |-> r]
    IN  IF conv.err # "none" THEN [base EXCEPT !.err = conv.err]
        ELSE IF Len(conv.vals) # Len(operation._func_params)
        THEN [base EXCEPT !.err = "ArityTypeError"]
        ELSE IF b.do = "raise"
        THEN [base EXCEPT !.called = TRUE, !.err = b.kind, !.status = b.status]
        ELSE IF b.kind = "None"
        THEN [base EXCEPT !.called = TRUE, !.ret = TRUE]
        ELSE LET n == Negotiate(r, operation._produces, b.kind)
             IN  [base EXCEPT !.called = TRUE, !.err = n.err, !.r = n.r]

----------------------------------------------------------------------------
(* RestHandler._exe (lines 144-203)                                        *)

RequestPaths ==
    { <<"/", "a">>, <<"/", "a", "/", "4", "2">>, <<"/", "a", "/", "z">>,
      <<"/", "a", "/", "a">>, <<"/", "4", "2", "/", "a">>,
      <<"/", "a", "/", "z", "/", "z">> }

NoArguments == [k \in {} |-> <<>>]

ArgumentSets ==
    { NoArguments,
      [k \in {<<"q">>} |-> << <<"5">>, <<"z">> >>],
      [k \in {<<"q">>} |-> << <<"z">> >>],
      [k \in {<<"b">>} |-> << <<"5">> >>] }

NoRequest == [method |-> "none", path |-> <<>>, arguments |-> NoArguments]

(* a verb gate that knows the four verbs of the decorators but not the     *)
(* verbs the class declares                                                *)
VerbDeclaredAnyVerb(method, functions) ==
    method \in {"GET", "POST", "PUT", "DELETE"}

(* lines 155-158: method in http_methods *)
VerbDeclared(method, functions) ==
    LET http_methods == [i \in 1..Len(functions) |-> functions[i]._method]
    IN  InSeq(method, http_methods)

(* lines 146-159: the request arrives and passes the verb gate or not.     *)
(* The listener makes one handler instance per request, so the served      *)
(* class is followed through one request.                                  *)
_exe(method) ==
    /\ pc = "idle"
    /\ \E path \in RequestPaths, arguments \in ArgumentSets :
          /\ Routed(path)
          /\ req' = [method |-> method, path |-> path, arguments |-> arguments]
    /\ IF ~VerbDeclared(method, ops)
       THEN /\ raised' = [exc |-> "HTTPError", status |-> 405]
            /\ pc' = "raised"
            /\ idx' = 0
       ELSE /\ raised' = NoExc
            /\ pc' = "scan"
            /\ idx' = 1
    /\ resp' = InitResp
    /\ matched' = <<>>
    /\ invoked' = <<>>
    /\ last' = NoLast
    /\ UNCHANGED <<py2, ops, decls, cfg>>

(* RestHandler.get/post/put/delete (lines 128-142) *)
RestHandler_get    == _exe("GET")
RestHandler_post   == _exe("POST")
RestHandler_put    == _exe("PUT")
RestHandler_delete == _exe("DELETE")

(* after the body of the loop: the next operation, or the end of _exe *)
Continue ==
    /\ idx' = idx + 1
    /\ pc' = IF idx = Len(ops) THEN "done" ELSE "scan"
    /\ raised' = raised

(* lines 161-203: one iteration of the for loop *)
Iterate ==
    /\ pc = "scan"
    /\ idx \in 1..Len(ops)
    /\ LET operation == ops[idx]
       IN  IF ~IsMatch(operation, req)
           THEN /\ last' = [NoLast EXCEPT !.op = idx, !.pre = resp]
                /\ Continue
                /\ UNCHANGED <<matched, invoked, resp>>
           ELSE \E b \in Behaviours :
                LET t == TryBody(operation, req, resp, py2, b)
                IN  /\ matched' = Append(matched, idx)
                    /\ invoked' = IF t.called THEN Append(invoked, idx) ELSE invoked
                    /\ last' = [op |-> idx, match |-> TRUE, values |-> t.values,
                                types |-> t.types, args |-> t.args,
                                called |-> t.called,
                                beh |-> IF t.called THEN b ELSE NoBehaviour,
                                err |-> t.err, pre |-> resp]
                    /\ IF t.err = "none"
                       THEN /\ resp' = t.r
                            /\ IF t.ret
                               THEN /\ pc' = "done"             \* line 182
                                    /\ UNCHANGED <<idx, raised>>
                               ELSE Continue
                       ELSE IF t.err = "HTTPError"
                       THEN LET g == gen_http_error(t.r, t.status, "HTTP Error")
                            IN  /\ resp' = g.r
                                /\ IF g.exc
                                   THEN /\ raised' = [exc |-> "RuntimeError", status |-> 0]
                                        /\ pc' = "raised"
                                        /\ UNCHANGED idx
                                   ELSE Continue
                       ELSE LET g == gen_http_error(t.r, 500, "Internal Server Error")
                            IN  /\ resp' = g.r
                                /\ raised' = [exc |-> IF g.exc THEN "RuntimeError"
                                                      ELSE "Exception",
                                              status |-> 0]
                                /\ pc' = "raised"
                                /\ UNCHANGED idx
    /\ UNCHANGED <<py2, ops, decls, cfg, req>>

----------------------------------------------------------------------------
Init ==
    /\ py2 \in BOOLEAN
    /\ pc = "define"
    /\ ops = <<>>
    /\ decls = <<>>
    /\ cfg = [kw |-> NoKw, result |-> "none"]
    /\ req = NoRequest
    /\ idx = 0
    /\ matched = <<>>
    /\ invoked = <<>>
    /\ last = NoLast
    /\ resp = InitResp
    /\ raised = NoExc

Next ==
    \/ \E a \in Annotations : get(a)
    \/ \E a \in Annotations : post(a)
    \/ \E a \in Annotations : put(a)
    \/ \E a \in Annotations : delete(a)
    \/ RestService
    \/ RestHandler_get
    \/ RestHandler_post
    \/ RestHandler_put
    \/ RestHandler_delete
    \/ Iterate

Spec == Init /\ [][Next]_vars

----------------------------------------------------------------------------
(* Properties                                                              *)

Segments(path) == SelectSeq(split(path, "/"), LAMBDA x : x # <<>>)

Serving == pc \in {"scan", "done", "raised"}

(* the match predicate as the specification words it *)
MatchPredicate(operation, request) ==
    /\ operation._method = request.method
    /\ \A i \in 1..Len(operation._service_name) :
          InSeq(operation._service_name[i], Segments(request.path))
    /\ Len(operation._service_params) + Len(operation._service_name)
          = Len(Segments(request.path))

GenericError(status, msg) ==
    <<[status |-> status, ctype |-> "text/html", body |-> <<Html(msg)>>]>>

(* C1: if the request verb is not among the verbs the handler's operations *)
(* declare, _exe ends with the method-not-allowed error (405) and no       *)
(* operation is matched or invoked.                                        *)
C1_VerbGate ==
    (Serving /\ \A i \in 1..Len(ops) : ops[i]._method # req.method)
      => /\ pc = "raised"
         /\ raised = [exc |-> "HTTPError", status |-> 405]
         /\ matched = <<>>
         /\ invoked = <<>>
         /\ last = NoLast
         /\ resp = InitResp

(* a PUT to the literal path /a of a class with one GET and one POST on it *)
C1_Witness ==
    /\ pc = "raised"
    /\ raised.status = 405
    /\ req.method = "PUT"
    /\ req.path = Path_a
    /\ Len(ops) = 2
    /\ {ops[1]._method, ops[2]._method} = {"GET", "POST"}
    /\ \A i \in 1..2 : ops[i]._service_name = << <<"a">> >> /\ ops[i]._service_params = <<>>

(* C2: for a request that matches a descriptor, the path split on "/"      *)
(* without the empty segments and without the segments equal to a literal  *)
(* token has exactly one value per declared path variable.                 *)
C2_OneValuePerPathVariable ==
    (Serving /\ last.match)
      => LET operation == ops[last.op]
             values == SelectSeq(Segments(req.path),
                                 LAMBDA x : ~InSeq(x, operation._service_name))
         IN  /\ Len(values) = Len(operation._service_params)
             /\ SubSeq(last.values, 1, Len(values))
                  = [i \in 1..Len(values) |-> Raw(values[i])]

(* C3: an operation with the query variable q and no path variable is      *)
(* called with None for q when the request has no arguments, and with the  *)
(* integer 5 when the arguments have q = ["5", ...] and q is declared int.  *)
C3_QueryValue ==
    (/\ Serving
     /\ last.match
     /\ ops[last.op]._query_params = << <<"q">> >>
     /\ ops[last.op]._service_params = <<>>
     /\ ops[last.op]._func_params = << <<"q">> >>)
      => /\ req.arguments = NoArguments
            => last.called /\ last.args = <<None>>
         /\ (/\ <<"q">> \in DOMAIN req.arguments
             /\ req.arguments[<<"q">>][1] = <<"5">>
             /\ decls[last.op].kw._types = <<INT>>)
            => last.called /\ last.args = <<PyInt(5)>>

(* C4: after a successful invocation the outcome depends on the produced   *)
(* type and the kind of the result only: nothing written for None, a JSON  *)
(* object or array, the XML rendering, and for every other combination a   *)
(* finished 500 response with no exception leaving _exe.                   *)
C4_Outcome(produces, kind) ==
    IF kind = "None" THEN resp = last.pre /\ pc = "done" /\ raised = NoExc
    ELSE IF produces = APPLICATION_JSON /\ kind = "dict"
    THEN /\ resp.sent = <<[status |-> 200, ctype |-> APPLICATION_JSON,
                           body |-> <<[enc |-> "json_object", of |-> kind]>>]>>
         /\ raised = NoExc
    ELSE IF produces = APPLICATION_JSON /\ kind = "list"
    THEN /\ resp.sent = <<[status |-> 200, ctype |-> APPLICATION_JSON,
                           body |-> <<[enc |-> "json_array", of |-> kind]>>]>>
         /\ raised = NoExc
    ELSE IF produces \in {APPLICATION_XML, TEXT_XML} /\ kind = "Document"
    THEN /\ resp.sent = <<[status |-> 200, ctype |-> produces,
                           body |-> <<[enc |-> "xml", of |-> kind]>>]>>
         /\ raised = NoExc
    ELSE /\ resp.finished
         /\ resp.sent = GenericError(500, "response is not a document")
         /\ raised = NoExc

C4_Negotiation ==
    (Serving /\ last.called /\ last.beh.do = "return" /\ last.beh.kind # "list_bad")
      => C4_Outcome(ops[last.op]._produces, last.beh.kind)

(* C5: a failure in extraction, coercion, invocation or serialization of a *)
(* matched operation gives a finished error response: the status of a      *)
(* raised HTTPError, or 500 followed by the re-raise.                       *)
C5_ErrorTranslation ==
    (Serving /\ last.match /\ last.err # "none")
      => /\ resp.finished
         /\ IF last.err = "HTTPError"
            THEN /\ resp.sent = GenericError(last.beh.status, "HTTP Error")
                 /\ raised = NoExc
            ELSE /\ resp.sent = GenericError(500, "Internal Server Error")
                 /\ pc = "raised"
                 /\ raised = [exc |-> "Exception", status |-> 0]

(* C6: every descriptor config returns produces one of the three media     *)
(* types, application/json when none is supplied; a decorator call with    *)
(* another produced type raises PyRestfulException and adds no descriptor. *)
C6_ProducesValid ==
    /\ Len(decls) = Len(ops)
    /\ \A i \in 1..Len(ops) :
          /\ ops[i]._produces \in {"application/json", "application/xml", "text/xml"}
          /\ "_produces" \notin DOMAIN decls[i].kw => ops[i]._produces = "application/json"
          /\ "_produces" \in DOMAIN decls[i].kw => ops[i]._produces = decls[i].kw._produces
    /\ (/\ "_produces" \in DOMAIN cfg.kw
        /\ cfg.kw._produces \notin {"application/json", "application/xml", "text/xml"})
         => cfg.result = "PyRestfulException" /\ pc = "aborted"

(* a rejected media type after a descriptor with the default one *)
C6_Witness ==
    /\ pc = "aborted"
    /\ cfg.result = "PyRestfulException"
    /\ cfg.kw._produces = "text/plain"
    /\ Len(ops) = 1
    /\ "_produces" \notin DOMAIN decls[1].kw
    /\ ops[1]._produces = APPLICATION_JSON

(* C7: for every request at most one descriptor is treated as a match and  *)
(* at most one operation is invoked: after the first match no further      *)
(* descriptor is examined.                                                 *)
C7_FirstMatchWins ==
    Serving => /\ Len(matched) <= 1
               /\ Len(invoked) <= 1
               /\ matched # <<>> => last.op = matched[1]

C9_NoMatch ==
    (/\ pc \in {"done", "raised"}
     /\ \E i \in 1..Len(ops) : ops[i]._method = req.method
     /\ \A i \in 1..Len(ops) : ~MatchPredicate(ops[i], req))
      => /\ pc = "done"
         /\ idx = Len(ops) + 1
         /\ matched = <<>>
         /\ invoked = <<>>
         /\ raised = NoExc
         /\ resp = InitResp

(* the verb is declared, the path has one segment too many *)
C9_Witness ==
    /\ pc = "done"
    /\ matched = <<>>
    /\ req.path = <<"/", "a", "/", "z", "/", "z">>
    /\ \E i \in 1..Len(ops) : ops[i]._method = req.method
    /\ resp = InitResp

(* C10: the arguments are the path values followed by the query values,    *)
(* each coerced to the type declared at its position, str where the        *)
(* supplied type is None or the supplied list is shorter; None is passed   *)
(* through and no indexing failure occurs.                                 *)
SuppliedTypes(i) ==
    IF "_types" \in DOMAIN decls[i].kw THEN decls[i].kw._types ELSE <<>>

DeclaredType(i, k) ==
    IF k <= Len(SuppliedTypes(i)) /\ SuppliedTypes(i)[k] # NONE
    THEN SuppliedTypes(i)[k] ELSE STR

C10_Coercion ==
    (Serving /\ last.match)
      => LET i == last.op
             n == Len(last.values)
             convertible == \A k \in 1..n :
                               last.values[k] # None
                                 => convert(last.values[k], DeclaredType(i, k)).err = "none"
         IN  /\ last.values = _find_params_value_of_url(ops[i]._service_name, req.path)
                                \o _find_params_value_of_arguments(ops[i], req.arguments)
             /\ last.err # "IndexError"
             /\ convertible
                  => last.args = [k \in 1..n |->
                                    IF last.values[k] = None THEN None
                                    ELSE convert(last.values[k], DeclaredType(i, k)).val]

====
